---- MODULE Spec2Model ----
(***************************************************************************)
(* Model of dewploy (src/src/main.rs, src/src/cli.rs): one run of the      *)
(* deployment pipeline.  The state is the command line and environment of  *)
(* the process, the parsed Args, the resolved build type and ip, the       *)
(* position of main, the process's current directory, the external         *)
(* commands executed so far (in order, with their outcome) and the way the *)
(* process ended.                                                          *)
(***************************************************************************)
EXTENDS Integers, Sequences, FiniteSets, TLC

VARIABLES argv, env, args, build_type, ip, pc, cwd, log, err, exit_code

vars == <<argv, env, args, build_type, ip, pc, cwd, log, err, exit_code>>

(***************************************************************************)
(* Option<T>: None is the empty tuple, Some(v) the one-element tuple.      *)
(***************************************************************************)
None == <<>>
Some(v) == <<v>>
IsSome(o) == o # None
Unwrap(o) == o[1]

(***************************************************************************)
(* Bounds of the model.                                                    *)
(***************************************************************************)
MaxHosts == 1

(***************************************************************************)
(* Program constants and types.                                            *)
(***************************************************************************)
TARGET_DIR == "target-deploy"

BuildType == {"Debug", "Release"}

\* Mutant: a third variant, fast-release, that builds like release.
ValueEnumBuildType_FastRelease(s) ==
    CASE s = "debug" -> Some("Debug")
      [] s = "release" -> Some("Release")
      [] s = "fast-release" -> Some("Release")
      [] OTHER -> None

\* clap's ValueEnum derive: the value names accepted on the command line.
ValueEnumBuildType(s) ==
    CASE s = "debug" -> Some("Debug")
      [] s = "release" -> Some("Release")
      [] OTHER -> None

\* Mutant: a string that names no variant parses as the default variant.
BuildTypeFromStr_Default(s) ==
    CASE s = "debug" -> Some("Debug")
      [] s = "release" -> Some("Release")
      [] OTHER -> Some("Debug")

\* impl FromStr for BuildType
BuildTypeFromStr(s) ==
    CASE s = "debug" -> Some("Debug")
      [] s = "release" -> Some("Release")
      [] OTHER -> None

\* impl Display for BuildType: the Debug form of the variant.
BuildTypeToString(b) ==
    CASE b = "Debug" -> "Debug"
      [] b = "Release" -> "Release"

\* Mutant: the variant is not lowercased.
ToLowercase_Identity(s) == s

\* str::to_lowercase on the strings the program lowercases.
ToLowercase(s) ==
    CASE s = "Debug" -> "debug"
      [] s = "Release" -> "release"
      [] OTHER -> s

Lower(b) == ToLowercase(BuildTypeToString(b))

\* Ipv4Addr values: four octets.
Hosts == {<<10, 0, 0, 4 + i>> : i \in 1..MaxHosts}

\* impl Display for Ipv4Addr
IpDisplay(a) ==
    ToString(a[1]) \o "." \o ToString(a[2]) \o "." \o ToString(a[3]) \o "." \o ToString(a[4])

\* The addresses the environment may spell; one more than the command line.
EnvHosts == Hosts \cup {<<10, 0, 0, 5 + MaxHosts>>}

\* impl FromStr for Ipv4Addr, on the strings of the model.
Ipv4FromStr(s) ==
    IF \E a \in EnvHosts : IpDisplay(a) = s
    THEN Some(CHOOSE a \in EnvHosts : IpDisplay(a) = s)
    ELSE None

(***************************************************************************)
(* Inputs of a run.                                                        *)
(***************************************************************************)
CliBuildTypeValues == {"debug", "release", "fast-release"}
EnvBuildTypeValues == {"debug", "release", "Release", "fast-release"}
EnvIpValues == {IpDisplay(a) : a \in EnvHosts} \cup {"ghost"}
WorkingDirs == {"/src/stormcloud"}
\* A directory only the environment names.
EnvWorkingDirs == {"/opt/stormcloud"}
StartDir == "/home/operator"

ArgvSet ==
    [build_type : {None} \cup {Some(s) : s \in CliBuildTypeValues},
     ip : {None} \cup {Some(a) : a \in Hosts},
     only_daemon : BOOLEAN,
     only_runner : BOOLEAN,
     with_cloudbuster : BOOLEAN,
     no_stop : BOOLEAN,
     no_start : BOOLEAN,
     keep_logs : BOOLEAN,
     no_strip : BOOLEAN,
     working_dir : {None} \cup {Some(d) : d \in WorkingDirs}]

\* The environment: the two variables the program reads (std::env::var in
\* parse_build_type and parse_ip) and one it never reads, naming a directory.
EnvSet ==
    [STORMCLOUD_BUILD_TYPE : {None} \cup {Some(s) : s \in EnvBuildTypeValues},
     GHOST_IP : {None} \cup {Some(s) : s \in EnvIpValues},
     STORMCLOUD_WORKING_DIR : {None} \cup {Some(d) : d \in EnvWorkingDirs}]

\* Outcome of Command::status(): exit status 0, a non-zero exit status, or
\* an io::Error because the program could not be launched.
Outcomes == {"success", "nonzero", "io_error"}

\* The io::Error of a failed launch or chdir, as anyhow reports it.
IoErrorMsg == <<"No", "such", "file", "or", "directory", "(os", "error", "2)">>

(***************************************************************************)
(* Paths.  A path is the sequence of its components; PathString is the     *)
(* string the program formats and hands to the external command.           *)
(***************************************************************************)
RECURSIVE PathString(_)
PathString(p) ==
    IF Len(p) = 0 THEN ""
    ELSE IF Len(p) = 1 THEN p[1]
    ELSE p[1] \o "/" \o PathString(Tail(p))

\* Path::file_name
FileName(p) == IF Len(p) = 0 THEN "" ELSE p[Len(p)]

\* Path::parent, with the unwrap_or(Path::new(TARGET_DIR)) of its caller
ParentOr(p, dflt) == IF Len(p) <= 1 THEN dflt ELSE SubSeq(p, 1, Len(p) - 1)

Artifacts == {"daemon", "runner", "cloudbuster"}

\* `target` of strip_daemon, strip_runner, strip_cloudbuster
StripTarget(a, b) ==
    CASE a = "daemon" -> <<TARGET_DIR, Lower(b), "stormcloud_daemon">>
      [] a = "runner" -> <<TARGET_DIR, Lower(b), "stormrunner_javascript">>
      [] a = "cloudbuster" -> <<TARGET_DIR, Lower(b), "cloudbuster">>

\* `debug` of the strip_* functions: format!("{}.debug", target)
StripDebug(a, b) ==
    LET t == StripTarget(a, b)
    IN  [t EXCEPT ![Len(t)] = t[Len(t)] \o ".debug"]

\* Mutant: upload_runner takes the daemon's binary as its source.
UploadSource_Copied(a, b) ==
    CASE a = "daemon" -> <<TARGET_DIR, Lower(b), "stormcloud_daemon">>
      [] a = "runner" -> <<TARGET_DIR, Lower(b), "stormcloud_daemon">>
      [] a = "cloudbuster" -> <<TARGET_DIR, Lower(b), "cloudbuster">>

\* `source` of upload_daemon, upload_runner, upload_cloudbuster
UploadSource(a, b) ==
    CASE a = "daemon" -> <<TARGET_DIR, Lower(b), "stormcloud_daemon">>
      [] a = "runner" -> <<TARGET_DIR, Lower(b), "stormrunner_javascript">>
      [] a = "cloudbuster" -> <<TARGET_DIR, Lower(b), "cloudbuster">>

\* `target` of the upload_* functions
UploadTarget(a, h) ==
    CASE a = "daemon" ->
           "root@" \o IpDisplay(h) \o ":/a/stormcloud/bin/release/stormcloud_daemon"
      [] a = "runner" ->
           "root@" \o IpDisplay(h)
             \o ":/a/stormcloud/stormlets/release/deployed/stormlet_javascript@0.0.0/stormrunner_javascript.0.0.0"
      [] a = "cloudbuster" ->
           "root@" \o IpDisplay(h) \o ":/a/stormcloud/bin/cloudbuster"

(***************************************************************************)
(* Command builders.  A command is its program, its arguments and the      *)
(* directory it runs in (None: the directory of the process).              *)
(***************************************************************************)
create_stop_command(h) ==
    [program |-> "ssh",
     args |-> <<"root@" \o IpDisplay(h), "/a/sbin/akamai_run", "stop", "stormcloud">>,
     current_dir |-> None]

create_start_command(h) ==
    [program |-> "ssh",
     args |-> <<"root@" \o IpDisplay(h), "/a/sbin/akamai_run", "start", "stormcloud">>,
     current_dir |-> None]

create_remove_logs_command(h) ==
    [program |-> "ssh",
     args |-> <<"root@" \o IpDisplay(h), "rm", "-rf", "/a/logs/stormcloud">>,
     current_dir |-> None]

\* Mutant: the release flag is passed whatever the build type.
create_build_command_AlwaysRelease(package, b) ==
    [program |-> "cross",
     args |-> <<"build", "--target-dir", TARGET_DIR, "--package", package, "--release">>,
     current_dir |-> None]

create_build_command(package, b) ==
    [program |-> "cross",
     args |-> <<"build", "--target-dir", TARGET_DIR, "--package", package>>
                \o (IF b = "Release" THEN <<"--release">> ELSE <<>>),
     current_dir |-> None]

create_copy_debuginfo_command(target, debug) ==
    [program |-> "objcopy",
     args |-> <<"--only-keep-debug", PathString(target), PathString(debug)>>,
     current_dir |-> None]

\* Mutant: the command is not run in the directory of the artifact.
create_remove_debuginfo_command_NoDir(target, debug) ==
    [program |-> "objcopy",
     args |-> <<"--strip-debug", "--strip-unneeded", "--remove-section", ".gnu_debuglink",
                "--add-gnu-debuglink", FileName(debug), FileName(target)>>,
     current_dir |-> None]

create_remove_debuginfo_command(target, debug) ==
    [program |-> "objcopy",
     args |-> <<"--strip-debug", "--strip-unneeded", "--remove-section", ".gnu_debuglink",
                "--add-gnu-debuglink", FileName(debug), FileName(target)>>,
     current_dir |-> Some(PathString(ParentOr(target, <<TARGET_DIR>>)))]

create_upload_command(source, target) ==
    [program |-> "rsync",
     args |-> <<"--human-readable", "--compress", "--progress", "--verbose",
                PathString(source), target>>,
     current_dir |-> None]

(***************************************************************************)
(* Error messages, as the sequence of their words.                         *)
(***************************************************************************)
BuildTypeMissingMsg ==
    <<"STORMCLOUD_BUILD_TYPE", "env", "var", "must", "be", "defined", "or",
      "--build-type", "must", "be", "supplied">>

IpMissingMsg ==
    <<"GHOST_IP", "env", "var", "must", "be", "defined", "or", "--ip", "must", "be", "supplied">>

StopFailedMsg(h) == <<"failed", "to", "stop", "stormcloud", "on", IpDisplay(h)>>
StartFailedMsg(h) == <<"failed", "to", "start", "stormcloud", "on", IpDisplay(h)>>
RemoveLogsFailedMsg(h) == <<"failed", "to", "remove", "logs", "on", IpDisplay(h)>>
BuildFailedMsg(a, b) == <<"failed", "to", "build", Lower(b), a>>
CopyDebuginfoFailedMsg(a, b) == <<"failed", "to", "copy", "debuginfo", "for", Lower(b), a>>
RemoveDebuginfoFailedMsg(a, b) == <<"failed", "to", "remove", "debuginfo", "for", Lower(b), a>>
UploadFailedMsg(a, b, h) == <<"failed", "to", "upload", Lower(b), a, "to", IpDisplay(h)>>

\* clap's own errors (exit code 2)
ClapConflictMsg == <<"the", "argument", "cannot", "be", "used", "with">>
ClapInvalidValueMsg == <<"invalid", "value", "for", "--build-type">>

(***************************************************************************)
(* The initial state: the process has been started with some command line  *)
(* and some environment, and nothing has run yet.                          *)
(***************************************************************************)
Init ==
    /\ argv \in ArgvSet
    /\ env \in EnvSet
    /\ args = None
    /\ build_type = None
    /\ ip = None
    /\ pc = "parse_args"
    /\ cwd = StartDir
    /\ log = <<>>
    /\ err = None
    /\ exit_code = None

(***************************************************************************)
(* Ways a function returns to main.                                        *)
(***************************************************************************)
\* Ok(()): main goes on at `next`.
Return(next) ==
    /\ pc' = next
    /\ UNCHANGED <<err, exit_code>>

\* Err(e) propagated by `?` out of main: the process reports e and exits 1.
Bail(msg) ==
    /\ pc' = "exit"
    /\ err' = Some(msg)
    /\ exit_code' = Some(1)

\* Mutant: the exit status of the command is not looked at.
Status_Unchecked(o, failmsg, next) ==
    CASE o = "success" -> Return(next)
      [] o = "nonzero" -> Return(next)
      [] o = "io_error" -> Bail(IoErrorMsg)

\* command.status()? followed by the check of status.success()
Status(o, failmsg, next) ==
    CASE o = "success" -> Return(next)
      [] o = "nonzero" -> Bail(failmsg)
      [] o = "io_error" -> Bail(IoErrorMsg)

\* One external command run by function fn, with outcome o.
Executed(fn, command, o) == [fn |-> fn, command |-> command, status |-> o]

\* A function that runs one command.
RunOne(fn, command, failmsg, next) ==
    \E o \in Outcomes :
        /\ log' = Append(log, Executed(fn, command, o))
        /\ Status(o, failmsg, next)

\* A function that runs two commands, the second only after the first
\* succeeded.
RunTwo(fn, command1, failmsg1, command2, failmsg2, next) ==
    \E o1 \in Outcomes :
        IF o1 # "success"
        THEN /\ log' = Append(log, Executed(fn, command1, o1))
             /\ Status(o1, failmsg1, next)
        ELSE \E o2 \in Outcomes :
                /\ log' = log \o <<Executed(fn, command1, o1), Executed(fn, command2, o2)>>
                /\ Status(o2, failmsg2, next)

\* A gated step whose flag skips it.
Skip(next) ==
    /\ pc' = next
    /\ UNCHANGED <<log, err, exit_code>>

(***************************************************************************)
(* The functions of main.rs.                                               *)
(***************************************************************************)
stop_stormcloud(h, next) ==
    RunOne("stop_stormcloud", create_stop_command(h), StopFailedMsg(h), next)

start_stormcloud(h, next) ==
    RunOne("start_stormcloud", create_start_command(h), StartFailedMsg(h), next)

remove_logs(h, next) ==
    RunOne("remove_logs", create_remove_logs_command(h), RemoveLogsFailedMsg(h), next)

build_daemon(b, next) ==
    RunOne("build_daemon", create_build_command("stormcloud_daemon", b),
           BuildFailedMsg("daemon", b), next)

build_runner(b, next) ==
    RunOne("build_runner", create_build_command("stormrunner_javascript", b),
           BuildFailedMsg("runner", b), next)

build_cloudbuster(b, next) ==
    RunOne("build_cloudbuster", create_build_command("cloudbuster", b),
           BuildFailedMsg("cloudbuster", b), next)

strip_daemon(b, next) ==
    LET target == StripTarget("daemon", b)
        debug == StripDebug("daemon", b)
    IN  RunTwo("strip_daemon",
               create_copy_debuginfo_command(target, debug), CopyDebuginfoFailedMsg("daemon", b),
               create_remove_debuginfo_command(target, debug), RemoveDebuginfoFailedMsg("daemon", b),
               next)

strip_runner(b, next) ==
    LET target == StripTarget("runner", b)
        debug == StripDebug("runner", b)
    IN  RunTwo("strip_runner",
               create_copy_debuginfo_command(target, debug), CopyDebuginfoFailedMsg("runner", b),
               create_remove_debuginfo_command(target, debug), RemoveDebuginfoFailedMsg("runner", b),
               next)

strip_cloudbuster(b, next) ==
    LET target == StripTarget("cloudbuster", b)
        debug == StripDebug("cloudbuster", b)
    IN  RunTwo("strip_cloudbuster",
               create_copy_debuginfo_command(target, debug), CopyDebuginfoFailedMsg("cloudbuster", b),
               create_remove_debuginfo_command(target, debug), RemoveDebuginfoFailedMsg("cloudbuster", b),
               next)

upload_daemon(b, h, next) ==
    RunOne("upload_daemon",
           create_upload_command(UploadSource("daemon", b), UploadTarget("daemon", h)),
           UploadFailedMsg("daemon", b, h), next)

upload_runner(b, h, next) ==
    RunOne("upload_runner",
           create_upload_command(UploadSource("runner", b), UploadTarget("runner", h)),
           UploadFailedMsg("runner", b, h), next)

upload_cloudbuster(b, h, next) ==
    RunOne("upload_cloudbuster",
           create_upload_command(UploadSource("cloudbuster", b), UploadTarget("cloudbuster", h)),
           UploadFailedMsg("cloudbuster", b, h), next)

(***************************************************************************)
(* Configuration: Args::parse(), parse_build_type, parse_ip.               *)
(***************************************************************************)
\* Mutant: the two only-flags are not declared as conflicting.
ArgsParse_NoConflict ==
    /\ pc = "parse_args"
    /\ IF IsSome(argv.build_type) /\ ValueEnumBuildType(Unwrap(argv.build_type)) = None
       THEN /\ pc' = "exit" /\ err' = Some(ClapInvalidValueMsg) /\ exit_code' = Some(2)
            /\ UNCHANGED args
       ELSE /\ args' = Some([argv EXCEPT !.build_type =
                               IF IsSome(argv.build_type)
                               THEN ValueEnumBuildType(Unwrap(argv.build_type))
                               ELSE None])
            /\ Return("parse_build_type")
    /\ UNCHANGED <<argv, env, build_type, ip, cwd, log>>

\* Args::parse(): clap rejects --only-daemon with --only-runner (conflicts_with)
\* and a --build-type value that is not a ValueEnum name; it then exits 2.
ArgsParse ==
    /\ pc = "parse_args"
    /\ IF argv.only_daemon /\ argv.only_runner
       THEN /\ pc' = "exit" /\ err' = Some(ClapConflictMsg) /\ exit_code' = Some(2)
            /\ UNCHANGED args
       ELSE IF IsSome(argv.build_type) /\ ValueEnumBuildType(Unwrap(argv.build_type)) = None
       THEN /\ pc' = "exit" /\ err' = Some(ClapInvalidValueMsg) /\ exit_code' = Some(2)
            /\ UNCHANGED args
       ELSE /\ args' = Some([argv EXCEPT !.build_type =
                               IF IsSome(argv.build_type)
                               THEN ValueEnumBuildType(Unwrap(argv.build_type))
                               ELSE None])
            /\ Return("parse_build_type")
    /\ UNCHANGED <<argv, env, build_type, ip, cwd, log>>

\* Mutant: the environment variable is looked at before the flag.
ResolveBuildType_EnvFirst(a, e) ==
    IF IsSome(e.STORMCLOUD_BUILD_TYPE)
          /\ IsSome(BuildTypeFromStr(Unwrap(e.STORMCLOUD_BUILD_TYPE)))
    THEN BuildTypeFromStr(Unwrap(e.STORMCLOUD_BUILD_TYPE))
    ELSE a.build_type

\* The value parse_build_type returns: Some(build type), or None for the bail!.
ResolveBuildType(a, e) ==
    IF IsSome(a.build_type) THEN a.build_type
    ELSE IF IsSome(e.STORMCLOUD_BUILD_TYPE)
              /\ IsSome(BuildTypeFromStr(Unwrap(e.STORMCLOUD_BUILD_TYPE)))
    THEN BuildTypeFromStr(Unwrap(e.STORMCLOUD_BUILD_TYPE))
    ELSE None

parse_build_type ==
    /\ pc = "parse_build_type"
    /\ LET r == ResolveBuildType(Unwrap(args), env)
       IN  IF IsSome(r)
           THEN build_type' = r /\ Return("parse_ip")
           ELSE UNCHANGED build_type /\ Bail(BuildTypeMissingMsg)
    /\ UNCHANGED <<argv, env, args, ip, cwd, log>>

\* Mutant: a missing address falls back to a default host.
ResolveIp_Default(a, e) ==
    IF IsSome(a.ip) THEN a.ip
    ELSE IF IsSome(e.GHOST_IP) /\ IsSome(Ipv4FromStr(Unwrap(e.GHOST_IP)))
    THEN Ipv4FromStr(Unwrap(e.GHOST_IP))
    ELSE Some(<<10, 0, 0, 5>>)

\* The value parse_ip returns: Some(address), or None for the bail!.
ResolveIp(a, e) ==
    IF IsSome(a.ip) THEN a.ip
    ELSE IF IsSome(e.GHOST_IP) /\ IsSome(Ipv4FromStr(Unwrap(e.GHOST_IP)))
    THEN Ipv4FromStr(Unwrap(e.GHOST_IP))
    ELSE None

\* Mutant: the directory is changed before the address is resolved.
parse_ip_AfterChdir ==
    /\ pc = "parse_ip"
    /\ cwd' = IF IsSome(Unwrap(args).working_dir) THEN Unwrap(Unwrap(args).working_dir) ELSE cwd
    /\ LET r == ResolveIp(Unwrap(args), env)
       IN  IF IsSome(r)
           THEN ip' = r /\ Return("switch_to_working_dir")
           ELSE UNCHANGED ip /\ Bail(IpMissingMsg)
    /\ UNCHANGED <<argv, env, args, build_type, log>>

parse_ip ==
    /\ pc = "parse_ip"
    /\ LET r == ResolveIp(Unwrap(args), env)
       IN  IF IsSome(r)
           THEN ip' = r /\ Return("switch_to_working_dir")
           ELSE UNCHANGED ip /\ Bail(IpMissingMsg)
    /\ UNCHANGED <<argv, env, args, build_type, cwd, log>>

\* Mutant: a failed set_current_dir is ignored.
switch_to_working_dir_Unchecked ==
    /\ pc = "switch_to_working_dir"
    /\ LET working_dir == Unwrap(args).working_dir
       IN  IF IsSome(working_dir)
           THEN \E ok \in BOOLEAN :
                   IF ok
                   THEN cwd' = Unwrap(working_dir) /\ Return("stop")
                   ELSE UNCHANGED cwd /\ Return("stop")
           ELSE UNCHANGED cwd /\ Return("stop")
    /\ UNCHANGED <<argv, env, args, build_type, ip, log>>

\* Mutant: without --working-dir the directory comes from the environment.
switch_to_working_dir_EnvFallback ==
    /\ pc = "switch_to_working_dir"
    /\ LET working_dir == IF IsSome(Unwrap(args).working_dir)
                          THEN Unwrap(args).working_dir
                          ELSE env.STORMCLOUD_WORKING_DIR
       IN  IF IsSome(working_dir)
           THEN \E ok \in BOOLEAN :
                   IF ok
                   THEN cwd' = Unwrap(working_dir) /\ Return("stop")
                   ELSE UNCHANGED cwd /\ Bail(IoErrorMsg)
           ELSE UNCHANGED cwd /\ Return("stop")
    /\ UNCHANGED <<argv, env, args, build_type, ip, log>>

\* set_current_dir succeeds or fails with an io::Error.
switch_to_working_dir ==
    /\ pc = "switch_to_working_dir"
    /\ LET working_dir == Unwrap(args).working_dir
       IN  IF IsSome(working_dir)
           THEN \E ok \in BOOLEAN :
                   IF ok
                   THEN cwd' = Unwrap(working_dir) /\ Return("stop")
                   ELSE UNCHANGED cwd /\ Bail(IoErrorMsg)
           ELSE UNCHANGED cwd /\ Return("stop")
    /\ UNCHANGED <<argv, env, args, build_type, ip, log>>

(***************************************************************************)
(* The steps of main and of deploy_project.                                *)
(***************************************************************************)
Config == <<argv, env, args, build_type, ip, cwd>>

MainStop ==
    /\ pc = "stop"
    /\ IF ~Unwrap(args).no_stop
       THEN stop_stormcloud(Unwrap(ip), "build_daemon")
       ELSE Skip("build_daemon")
    /\ UNCHANGED Config

DeployBuildDaemon ==
    /\ pc = "build_daemon"
    /\ IF ~Unwrap(args).only_runner
       THEN build_daemon(Unwrap(build_type), "build_runner")
       ELSE Skip("build_runner")
    /\ UNCHANGED Config

DeployBuildRunner ==
    /\ pc = "build_runner"
    /\ IF ~Unwrap(args).only_daemon
       THEN build_runner(Unwrap(build_type), "build_cloudbuster")
       ELSE Skip("build_cloudbuster")
    /\ UNCHANGED Config

\* Mutant: the strip phase is left out of deploy_project.
DeployBuildCloudbuster_NoStripPhase ==
    /\ pc = "build_cloudbuster"
    /\ IF Unwrap(args).with_cloudbuster
       THEN build_cloudbuster(Unwrap(build_type), "upload_daemon")
       ELSE Skip("upload_daemon")
    /\ UNCHANGED Config

DeployBuildCloudbuster ==
    /\ pc = "build_cloudbuster"
    /\ IF Unwrap(args).with_cloudbuster
       THEN build_cloudbuster(Unwrap(build_type), "strip_daemon")
       ELSE Skip("strip_daemon")
    /\ UNCHANGED Config

\* Mutant: the daemon is uploaded as soon as it has been stripped.
DeployStripDaemon_ThenUpload ==
    /\ pc = "strip_daemon"
    /\ IF ~Unwrap(args).no_strip /\ ~Unwrap(args).only_runner
       THEN strip_daemon(Unwrap(build_type), "upload_daemon")
       ELSE Skip("strip_runner")
    /\ UNCHANGED Config

DeployStripDaemon ==
    /\ pc = "strip_daemon"
    /\ IF ~Unwrap(args).no_strip /\ ~Unwrap(args).only_runner
       THEN strip_daemon(Unwrap(build_type), "strip_runner")
       ELSE Skip("strip_runner")
    /\ UNCHANGED Config

\* Mutant: the strip of the runner is gated by the daemon's condition.
DeployStripRunner_WrongGate ==
    /\ pc = "strip_runner"
    /\ IF ~Unwrap(args).no_strip /\ ~Unwrap(args).only_runner
       THEN strip_runner(Unwrap(build_type), "strip_cloudbuster")
       ELSE Skip("strip_cloudbuster")
    /\ UNCHANGED Config

DeployStripRunner ==
    /\ pc = "strip_runner"
    /\ IF ~Unwrap(args).no_strip /\ ~Unwrap(args).only_daemon
       THEN strip_runner(Unwrap(build_type), "strip_cloudbuster")
       ELSE Skip("strip_cloudbuster")
    /\ UNCHANGED Config

DeployStripCloudbuster ==
    /\ pc = "strip_cloudbuster"
    /\ IF ~Unwrap(args).no_strip /\ Unwrap(args).with_cloudbuster
       THEN strip_cloudbuster(Unwrap(build_type), "upload_daemon")
       ELSE Skip("upload_daemon")
    /\ UNCHANGED Config

DeployUploadDaemon ==
    /\ pc = "upload_daemon"
    /\ IF ~Unwrap(args).only_runner
       THEN upload_daemon(Unwrap(build_type), Unwrap(ip), "upload_runner")
       ELSE Skip("upload_runner")
    /\ UNCHANGED Config

DeployUploadRunner ==
    /\ pc = "upload_runner"
    /\ IF ~Unwrap(args).only_daemon
       THEN upload_runner(Unwrap(build_type), Unwrap(ip), "upload_cloudbuster")
       ELSE Skip("upload_cloudbuster")
    /\ UNCHANGED Config

DeployUploadCloudbuster ==
    /\ pc = "upload_cloudbuster"
    /\ IF Unwrap(args).with_cloudbuster
       THEN upload_cloudbuster(Unwrap(build_type), Unwrap(ip), "remove_logs")
       ELSE Skip("remove_logs")
    /\ UNCHANGED Config

\* Mutant: the log removal is gated by --no-start instead of --keep-logs.
MainRemoveLogs_WrongFlag ==
    /\ pc = "remove_logs"
    /\ IF ~Unwrap(args).no_start
       THEN remove_logs(Unwrap(ip), "start")
       ELSE Skip("start")
    /\ UNCHANGED Config

MainRemoveLogs ==
    /\ pc = "remove_logs"
    /\ IF ~Unwrap(args).keep_logs
       THEN remove_logs(Unwrap(ip), "start")
       ELSE Skip("start")
    /\ UNCHANGED Config

MainStart ==
    /\ pc = "start"
    /\ IF ~Unwrap(args).no_start
       THEN start_stormcloud(Unwrap(ip), "ok")
       ELSE Skip("ok")
    /\ UNCHANGED Config

\* Mutant: a run that went through still reports failure.
MainOk_Failure ==
    /\ pc = "ok"
    /\ pc' = "exit"
    /\ exit_code' = Some(1)
    /\ UNCHANGED <<Config, log, err>>

\* main returns Ok(()): the process exits 0.
MainOk ==
    /\ pc = "ok"
    /\ pc' = "exit"
    /\ exit_code' = Some(0)
    /\ UNCHANGED <<Config, log, err>>

Next ==
    \/ ArgsParse
    \/ parse_build_type
    \/ parse_ip
    \/ switch_to_working_dir
    \/ MainStop
    \/ DeployBuildDaemon
    \/ DeployBuildRunner
    \/ DeployBuildCloudbuster
    \/ DeployStripDaemon
    \/ DeployStripRunner
    \/ DeployStripCloudbuster
    \/ DeployUploadDaemon
    \/ DeployUploadRunner
    \/ DeployUploadCloudbuster
    \/ MainRemoveLogs
    \/ MainStart
    \/ MainOk

Spec == Init /\ [][Next]_vars

\* A run ends once every external command has ended.
FairSpec == Spec /\ WF_vars(Next)

TypeOK ==
    /\ argv \in ArgvSet
    /\ env \in EnvSet
    /\ build_type \in {None} \cup {Some(b) : b \in BuildType}
    /\ ip \in {None} \cup {Some(a) : a \in EnvHosts}
    /\ cwd \in {StartDir} \cup WorkingDirs
    /\ exit_code \in {None, Some(0), Some(1), Some(2)}

(***************************************************************************)
(* Reading the executed commands.                                          *)
(***************************************************************************)
\* The binary each artifact is built into, and the directory of a variant.
ArtifactFile(a) ==
    CASE a = "daemon" -> "stormcloud_daemon"
      [] a = "runner" -> "stormrunner_javascript"
      [] a = "cloudbuster" -> "cloudbuster"

VariantWord(b) == IF b = "Release" THEN "release" ELSE "debug"

ArtifactPath(a, b) == "target-deploy/" \o VariantWord(b) \o "/" \o ArtifactFile(a)

Contains(seq, w) == \E i \in 1..Len(seq) : seq[i] = w

IsStop(c) == c.program = "ssh" /\ Len(c.args) >= 3 /\ c.args[3] = "stop"
IsStart(c) == c.program = "ssh" /\ Len(c.args) >= 3 /\ c.args[3] = "start"
IsRemoveLogs(c) == c.program = "ssh" /\ Len(c.args) >= 2 /\ c.args[2] = "rm"
IsBuild(c) == c.program = "cross"
IsBuildOf(c, a) == IsBuild(c) /\ Len(c.args) >= 5 /\ c.args[5] = ArtifactFile(a)
IsCopyDebuginfo(c) == c.program = "objcopy" /\ c.args[1] = "--only-keep-debug"
IsCopyDebuginfoOf(c, a) ==
    IsCopyDebuginfo(c) /\ \E b \in BuildType : c.args[2] = ArtifactPath(a, b)
IsRemoveDebuginfo(c) == c.program = "objcopy" /\ c.args[1] = "--strip-debug"
IsRemoveDebuginfoOf(c, a) ==
    IsRemoveDebuginfo(c) /\ c.args[Len(c.args)] = ArtifactFile(a)
IsStrip(c) == IsCopyDebuginfo(c) \/ IsRemoveDebuginfo(c)
IsUpload(c) == c.program = "rsync"
IsUploadOf(c, a) == IsUpload(c) /\ \E b \in BuildType : c.args[5] = ArtifactPath(a, b)

Positions == 1..Len(log)
Succeeded(i) == log[i].status = "success"
Parsed == IsSome(args)
Flags == Unwrap(args)
Completed == pc = "exit" /\ exit_code = Some(0)

\* Artifact a has been built / stripped / uploaded successfully before position j.
BuiltBefore(a, j) == \E i \in 1..(j - 1) : IsBuildOf(log[i].command, a) /\ Succeeded(i)
StrippedBefore(a, j) ==
    \E i \in 1..(j - 1), k \in 1..(j - 1) :
        /\ i < k
        /\ IsCopyDebuginfoOf(log[i].command, a) /\ Succeeded(i)
        /\ IsRemoveDebuginfoOf(log[k].command, a) /\ Succeeded(k)

(***************************************************************************)
(* C1: for every flag combination, the stop command (unless --no-stop)     *)
(* runs before any build command; every upload runs after the build of its *)
(* artifact and, unless --no-strip, after the strip of its artifact; the   *)
(* start command (unless --no-start) runs after every upload command.      *)
(***************************************************************************)
C1_PipelineOrdering ==
    \A j \in Positions :
        /\ IsBuild(log[j].command) =>
              /\ ~Flags.no_stop => \E i \in 1..(j - 1) : IsStop(log[i].command) /\ Succeeded(i)
              /\ \A i \in Positions : IsStop(log[i].command) => i < j
        /\ IsUpload(log[j].command) =>
              \E a \in Artifacts :
                  /\ IsUploadOf(log[j].command, a)
                  /\ BuiltBefore(a, j)
                  /\ ~Flags.no_strip => StrippedBefore(a, j)
        /\ IsStart(log[j].command) =>
              /\ ~Flags.no_start
              /\ \A i \in Positions : IsUpload(log[i].command) => i < j /\ Succeeded(i)
              /\ \E i \in 1..(j - 1) : IsUpload(log[i].command)

C1_Witness ==
    /\ Completed
    /\ ~Flags.no_stop /\ ~Flags.no_strip /\ ~Flags.no_start /\ Flags.with_cloudbuster
    /\ \E i, j, k, l \in Positions :
          /\ i < j /\ j < k /\ k < l
          /\ IsStop(log[i].command)
          /\ IsBuildOf(log[j].command, "cloudbuster")
          /\ IsUploadOf(log[k].command, "cloudbuster")
          /\ IsStart(log[l].command)

(***************************************************************************)
(* C2: when a step's command fails (non-zero exit or failed launch) the    *)
(* run aborts at once: the failed command is the last command of the run,  *)
(* so there is no retry, no rollback and no start after it, and the        *)
(* process exits 1 with an error.                                          *)
(***************************************************************************)
C2_AbortOnFailure ==
    \A i \in Positions :
        ~Succeeded(i) =>
            /\ i = Len(log)
            /\ pc = "exit"
            /\ exit_code = Some(1)
            /\ IsSome(err)

C2_Witness ==
    /\ pc = "exit"
    /\ Len(log) >= 3
    /\ IsStop(log[1].command) /\ Succeeded(1)
    /\ IsUpload(log[Len(log)].command) /\ log[Len(log)].status = "nonzero"
    /\ ~Flags.no_start /\ ~Flags.keep_logs

(***************************************************************************)
(* C3: for every failed step, whether the command exited non-zero or could *)
(* not be launched, the reported error names the step and its target:      *)
(* artifact and variant for build, strip and upload, host for stop, start, *)
(* log removal and upload.                                                 *)
(***************************************************************************)
StepWords(c) ==
    IF IsStop(c) THEN <<"stop">>
    ELSE IF IsStart(c) THEN <<"start">>
    ELSE IF IsRemoveLogs(c) THEN <<"remove", "logs">>
    ELSE IF IsBuild(c) THEN <<"build">>
    ELSE IF IsCopyDebuginfo(c) THEN <<"copy", "debuginfo">>
    ELSE IF IsRemoveDebuginfo(c) THEN <<"remove", "debuginfo">>
    ELSE <<"upload">>

ArtifactOf(c) ==
    CHOOSE a \in Artifacts :
        IsBuildOf(c, a) \/ IsCopyDebuginfoOf(c, a) \/ IsRemoveDebuginfoOf(c, a) \/ IsUploadOf(c, a)

HasArtifact(c) == IsBuild(c) \/ IsStrip(c) \/ IsUpload(c)
HasHost(c) == IsStop(c) \/ IsStart(c) \/ IsRemoveLogs(c) \/ IsUpload(c)

HostWord(a) ==
    CASE a = <<10, 0, 0, 5>> -> "10.0.0.5"
      [] a = <<10, 0, 0, 6>> -> "10.0.0.6"
      [] a = <<10, 0, 0, 7>> -> "10.0.0.7"
      [] a = <<10, 0, 0, 8>> -> "10.0.0.8"

NamesStepAndTarget(msg, c) ==
    /\ \A k \in 1..Len(StepWords(c)) : Contains(msg, StepWords(c)[k])
    /\ HasArtifact(c) =>
          /\ Contains(msg, ArtifactOf(c))
          /\ Contains(msg, VariantWord(Unwrap(build_type)))
    /\ HasHost(c) => Contains(msg, HostWord(Unwrap(ip)))

C3_ErrorNamesStep ==
    \A i \in Positions :
        ~Succeeded(i) => IsSome(err) /\ NamesStepAndTarget(Unwrap(err), log[i].command)

\* The part of C3 the code keeps: a command that exited non-zero.
C3_NonzeroErrorNamesStep ==
    \A i \in Positions :
        log[i].status = "nonzero" =>
            IsSome(err) /\ NamesStepAndTarget(Unwrap(err), log[i].command)

(***************************************************************************)
(* C4: in a run that completes without failure the artifacts built, the    *)
(* artifacts uploaded and (unless --no-strip) the artifacts stripped are   *)
(* the same set: the daemon iff not only_runner, the runner iff not        *)
(* only_daemon, cloudbuster iff with_cloudbuster.                          *)
(***************************************************************************)
Built == {a \in Artifacts : \E i \in Positions : IsBuildOf(log[i].command, a)}
Uploaded == {a \in Artifacts : \E i \in Positions : IsUploadOf(log[i].command, a)}
Stripped ==
    {a \in Artifacts : \E i, k \in Positions :
        IsCopyDebuginfoOf(log[i].command, a) /\ IsRemoveDebuginfoOf(log[k].command, a)}
HalfStripped ==
    {a \in Artifacts : \E i \in Positions :
        IsCopyDebuginfoOf(log[i].command, a) \/ IsRemoveDebuginfoOf(log[i].command, a)}

Selection ==
    {a \in Artifacts :
        \/ a = "daemon" /\ ~Flags.only_runner
        \/ a = "runner" /\ ~Flags.only_daemon
        \/ a = "cloudbuster" /\ Flags.with_cloudbuster}

C4_SameSelection ==
    Completed =>
        /\ Built = Selection
        /\ Uploaded = Selection
        /\ ~Flags.no_strip => Stripped = Selection /\ HalfStripped = Selection
        /\ Cardinality({i \in Positions : IsBuild(log[i].command)}) = Cardinality(Selection)
        /\ Cardinality({i \in Positions : IsUpload(log[i].command)}) = Cardinality(Selection)

C4_Witness ==
    /\ Completed
    /\ Flags.only_daemon /\ Flags.with_cloudbuster /\ ~Flags.no_strip
    /\ Built = {"daemon", "cloudbuster"}
    /\ Stripped = {"daemon", "cloudbuster"}
    /\ Uploaded = {"daemon", "cloudbuster"}

(***************************************************************************)
(* C5: in a run that completes without failure each lifecycle step runs    *)
(* exactly when its flag allows it: stop iff not no_stop, strip iff not    *)
(* no_strip, log removal iff not keep_logs, start iff not no_start, each   *)
(* once; --only-daemon --no-strip --keep-logs gives exactly stop, build    *)
(* daemon, upload daemon, start.                                           *)
(***************************************************************************)
Count(P(_)) == Cardinality({i \in Positions : P(log[i].command)})

C5_Scenario ==
    /\ Flags.only_daemon /\ Flags.no_strip /\ Flags.keep_logs
    /\ ~Flags.no_stop /\ ~Flags.no_start /\ ~Flags.with_cloudbuster

C5_FlagsGateSteps ==
    Completed =>
        /\ Count(IsStop) = (IF Flags.no_stop THEN 0 ELSE 1)
        /\ (Count(IsStrip) > 0) <=> ~Flags.no_strip
        /\ Count(IsRemoveLogs) = (IF Flags.keep_logs THEN 0 ELSE 1)
        /\ Count(IsStart) = (IF Flags.no_start THEN 0 ELSE 1)
        /\ C5_Scenario =>
              /\ Len(log) = 4
              /\ IsStop(log[1].command)
              /\ IsBuildOf(log[2].command, "daemon")
              /\ IsUploadOf(log[3].command, "daemon")
              /\ IsStart(log[4].command)

C5_Witness == Completed /\ C5_Scenario /\ Len(log) = 4

(***************************************************************************)
(* C6: variant release, host 10.0.0.5, no skip flags, daemon and runner,   *)
(* every command succeeding: the commands executed are exactly stop, build *)
(* daemon, build runner, strip daemon, strip runner, upload daemon, upload *)
(* runner, remove logs, start, with `release` in the local paths.          *)
(***************************************************************************)
Cmd(program, arguments) == [program |-> program, args |-> arguments, current_dir |-> None]
CmdIn(program, arguments, dir) ==
    [program |-> program, args |-> arguments, current_dir |-> Some(dir)]

C6_Scenario ==
    /\ Completed
    /\ build_type = Some("Release")
    /\ ip = Some(<<10, 0, 0, 5>>)
    /\ ~Flags.no_stop /\ ~Flags.no_start /\ ~Flags.keep_logs /\ ~Flags.no_strip
    /\ ~Flags.only_daemon /\ ~Flags.only_runner /\ ~Flags.with_cloudbuster

C6_Expected ==
    << Cmd("ssh", <<"root@10.0.0.5", "/a/sbin/akamai_run", "stop", "stormcloud">>),
       Cmd("cross", <<"build", "--target-dir", "target-deploy", "--package",
                      "stormcloud_daemon", "--release">>),
       Cmd("cross", <<"build", "--target-dir", "target-deploy", "--package",
                      "stormrunner_javascript", "--release">>),
       Cmd("objcopy", <<"--only-keep-debug", "target-deploy/release/stormcloud_daemon",
                        "target-deploy/release/stormcloud_daemon.debug">>),
       CmdIn("objcopy", <<"--strip-debug", "--strip-unneeded", "--remove-section",
                          ".gnu_debuglink", "--add-gnu-debuglink",
                          "stormcloud_daemon.debug", "stormcloud_daemon">>,
             "target-deploy/release"),
       Cmd("objcopy", <<"--only-keep-debug", "target-deploy/release/stormrunner_javascript",
                        "target-deploy/release/stormrunner_javascript.debug">>),
       CmdIn("objcopy", <<"--strip-debug", "--strip-unneeded", "--remove-section",
                          ".gnu_debuglink", "--add-gnu-debuglink",
                          "stormrunner_javascript.debug", "stormrunner_javascript">>,
             "target-deploy/release"),
       Cmd("rsync", <<"--human-readable", "--compress", "--progress", "--verbose",
                      "target-deploy/release/stormcloud_daemon",
                      "root@10.0.0.5:/a/stormcloud/bin/release/stormcloud_daemon">>),
       Cmd("rsync", <<"--human-readable", "--compress", "--progress", "--verbose",
                      "target-deploy/release/stormrunner_javascript",
                      "root@10.0.0.5:/a/stormcloud/stormlets/release/deployed/stormlet_javascript@0.0.0/stormrunner_javascript.0.0.0">>),
       Cmd("ssh", <<"root@10.0.0.5", "rm", "-rf", "/a/logs/stormcloud">>),
       Cmd("ssh", <<"root@10.0.0.5", "/a/sbin/akamai_run", "start", "stormcloud">>) >>

C6_ReleaseScenario ==
    C6_Scenario => [i \in 1..Len(log) |-> log[i].command] = C6_Expected

C6_Witness == C6_Scenario /\ Len(log) = 11

(***************************************************************************)
(* C7: for the build variant and for the host, when the command-line flag  *)
(* is present the resolved value is the flag's value, whatever the         *)
(* environment variable holds (absent, conflicting, unparsable); the       *)
(* environment variable is used only when the flag is absent.              *)
(***************************************************************************)
VariantNamed(s) == IF s = "release" THEN "Release" ELSE "Debug"

HostNamed(s) ==
    CASE s = "10.0.0.5" -> <<10, 0, 0, 5>>
      [] s = "10.0.0.6" -> <<10, 0, 0, 6>>
      [] s = "10.0.0.7" -> <<10, 0, 0, 7>>
      [] s = "10.0.0.8" -> <<10, 0, 0, 8>>

BuildTypeResolutionOver == Parsed /\ pc # "parse_build_type"
IpResolutionOver == Parsed /\ IsSome(build_type) /\ pc # "parse_ip"

C7_CliWins ==
    /\ (BuildTypeResolutionOver /\ IsSome(argv.build_type)) =>
          build_type = Some(VariantNamed(Unwrap(argv.build_type)))
    /\ (IpResolutionOver /\ IsSome(argv.ip)) => ip = argv.ip
    /\ (IsSome(build_type) /\ argv.build_type = None) =>
          /\ IsSome(env.STORMCLOUD_BUILD_TYPE)
          /\ build_type = Some(VariantNamed(Unwrap(env.STORMCLOUD_BUILD_TYPE)))
    /\ (IsSome(ip) /\ argv.ip = None) =>
          /\ IsSome(env.GHOST_IP)
          /\ ip = Some(HostNamed(Unwrap(env.GHOST_IP)))

C7_Witness ==
    /\ pc = "stop"
    /\ argv.build_type = Some("debug") /\ env.STORMCLOUD_BUILD_TYPE = Some("release")
    /\ argv.ip = Some(<<10, 0, 0, 5>>) /\ env.GHOST_IP = Some("10.0.0.6")
    /\ build_type = Some("Debug") /\ ip = Some(<<10, 0, 0, 5>>)

(***************************************************************************)
(* C8: on an accepted command line, when the flag and the environment      *)
(* variable of the build variant are both absent, resolution fails with    *)
(* the error that names STORMCLOUD_BUILD_TYPE and --build-type; when those *)
(* of the host are both absent and the build variant has resolved, it      *)
(* fails with the error that names GHOST_IP and --ip.  Nothing has run.    *)
(***************************************************************************)
BuildTypeAbsent == argv.build_type = None /\ env.STORMCLOUD_BUILD_TYPE = None
IpAbsent == argv.ip = None /\ env.GHOST_IP = None

NamesBuildTypeSetting ==
    IsSome(err) /\ Contains(Unwrap(err), "STORMCLOUD_BUILD_TYPE") /\ Contains(Unwrap(err), "--build-type")
NamesIpSetting ==
    IsSome(err) /\ Contains(Unwrap(err), "GHOST_IP") /\ Contains(Unwrap(err), "--ip")

FailedInConfiguration == pc = "exit" /\ exit_code = Some(1) /\ log = <<>> /\ cwd = StartDir

C8_MissingConfig ==
    /\ (BuildTypeResolutionOver /\ BuildTypeAbsent) =>
          FailedInConfiguration /\ NamesBuildTypeSetting /\ build_type = None
    /\ (IpResolutionOver /\ IpAbsent) =>
          FailedInConfiguration /\ NamesIpSetting /\ ip = None

C8_Witness ==
    /\ IpResolutionOver /\ IpAbsent
    /\ pc = "exit" /\ NamesIpSetting
    /\ argv.build_type = None /\ build_type = Some("Release")

\* C8 as stated: each absent setting is named by the error of the failed
\* resolution, also when the other setting is absent too.
C8_EachMissingSettingNamed ==
    (Parsed /\ pc = "exit") =>
        /\ BuildTypeAbsent => NamesBuildTypeSetting
        /\ IpAbsent => NamesIpSetting

(***************************************************************************)
(* C9: --only-daemon together with --only-runner is rejected when the      *)
(* command line is parsed, whatever the other inputs: the process exits    *)
(* with a usage error before anything is resolved or run, so whenever Args *)
(* exists at most one of only_daemon and only_runner is true.              *)
(***************************************************************************)
C9_OnlyFlagsExclusive ==
    /\ Parsed => ~(Flags.only_daemon /\ Flags.only_runner)
    /\ (argv.only_daemon /\ argv.only_runner /\ pc # "parse_args") =>
          /\ pc = "exit" /\ exit_code = Some(2) /\ IsSome(err)
          /\ args = None /\ build_type = None /\ ip = None
          /\ log = <<>> /\ cwd = StartDir

C9_Witness ==
    /\ argv.only_daemon /\ argv.only_runner
    /\ argv.build_type = Some("release") /\ IsSome(argv.ip) /\ argv.with_cloudbuster
    /\ pc = "exit" /\ exit_code = Some(2)

(***************************************************************************)
(* C10: for every package (daemon, runner, cloudbuster) the build command  *)
(* has --release when the build variant is release and has not when it is  *)
(* debug.                                                                  *)
(***************************************************************************)
C10_ReleaseFlag ==
    \A i \in Positions :
        IsBuild(log[i].command) =>
            /\ \E a \in Artifacts : IsBuildOf(log[i].command, a)
            /\ build_type = Some("Release") => Contains(log[i].command.args, "--release")
            /\ build_type = Some("Debug") => ~Contains(log[i].command.args, "--release")

C10_Witness ==
    /\ build_type = Some("Release")
    /\ \A a \in Artifacts :
          \E i \in Positions :
              IsBuildOf(log[i].command, a) /\ Contains(log[i].command.args, "--release")

C10_WitnessDebug ==
    /\ build_type = Some("Debug")
    /\ \A a \in Artifacts :
          \E i \in Positions :
              IsBuildOf(log[i].command, a) /\ ~Contains(log[i].command.args, "--release")

(***************************************************************************)
(* C11: the build variant is debug or release, nothing else: a             *)
(* --build-type fast-release is refused when the command line is parsed    *)
(* (usage error, nothing resolved or run) and a STORMCLOUD_BUILD_TYPE of   *)
(* fast-release never becomes the build variant; the build command has     *)
(* --release iff the variant is release.                                   *)
(***************************************************************************)
C11_TwoVariants ==
    /\ build_type \in {None, Some("Debug"), Some("Release")}
    /\ (argv.build_type = Some("fast-release") /\ pc # "parse_args") =>
          /\ pc = "exit" /\ exit_code = Some(2) /\ IsSome(err)
          /\ args = None /\ build_type = None /\ log = <<>>
    /\ (argv.build_type = None /\ env.STORMCLOUD_BUILD_TYPE = Some("fast-release")) =>
          build_type = None /\ log = <<>>
    /\ \A i \in Positions :
          IsBuild(log[i].command) =>
              (Contains(log[i].command.args, "--release") <=> build_type = Some("Release"))

C11_Witness ==
    /\ argv.build_type = Some("fast-release")
    /\ ~(argv.only_daemon /\ argv.only_runner)
    /\ IsSome(argv.ip)
    /\ pc = "exit" /\ exit_code = Some(2)

\* C11 as stated: fast-release is a build variant, and it builds like release.
C11_FastReleaseIsAVariant ==
    (argv.build_type = Some("fast-release") /\ ~(argv.only_daemon /\ argv.only_runner)
        /\ pc # "parse_args") =>
        /\ Parsed
        /\ \A i \in Positions :
              IsBuild(log[i].command) => Contains(log[i].command.args, "--release")

(***************************************************************************)
(* C12: when --working-dir is given, the current directory of the process  *)
(* has been changed to it before any external command runs, and a failed   *)
(* change of directory ends the run at once (exit 1 with the io error)     *)
(* with no command executed.                                               *)
(***************************************************************************)
SwitchOver == IpResolutionOver /\ IsSome(ip) /\ pc # "switch_to_working_dir"

C12_ChdirBeforeCommands ==
    /\ (log # <<>> /\ IsSome(Flags.working_dir)) => cwd = Unwrap(Flags.working_dir)
    /\ (SwitchOver /\ IsSome(Flags.working_dir) /\ cwd # Unwrap(Flags.working_dir)) =>
          /\ pc = "exit" /\ exit_code = Some(1)
          /\ err = Some(<<"No", "such", "file", "or", "directory", "(os", "error", "2)">>)
          /\ log = <<>>

C12_Witness ==
    /\ Parsed /\ Flags.working_dir = Some("/src/stormcloud")
    /\ cwd = "/src/stormcloud"
    /\ Len(log) >= 1 /\ IsStop(log[1].command)

C12_WitnessFailed ==
    /\ SwitchOver /\ Flags.working_dir = Some("/src/stormcloud")
    /\ cwd = "/home/operator" /\ pc = "exit" /\ ~Flags.no_stop

(***************************************************************************)
(* C13: the working directory comes from --working-dir only; no            *)
(* environment variable is a fallback.  Without the flag, resolution does  *)
(* not fail and the current directory stays the one the process started    *)
(* in, whatever the environment names; with the flag, the directory is the *)
(* flag's once the change has succeeded.                                   *)
(***************************************************************************)
C13_WorkingDirFromFlagOnly ==
    /\ cwd \in {"/home/operator"} \cup
               (IF Parsed /\ IsSome(Flags.working_dir) THEN {Unwrap(Flags.working_dir)} ELSE {})
    /\ (SwitchOver /\ Flags.working_dir = None) =>
          /\ cwd = "/home/operator"
          /\ (pc = "exit" /\ exit_code # Some(0)) => log # <<>>

C13_Witness ==
    /\ SwitchOver /\ pc = "stop"
    /\ argv.working_dir = None /\ env.STORMCLOUD_WORKING_DIR = Some("/opt/stormcloud")
    /\ cwd = "/home/operator"

\* C13 as stated: without the flag, a working directory named by the
\* environment becomes the current directory.
C13_EnvironmentFallback ==
    (SwitchOver /\ pc # "exit" /\ argv.working_dir = None
        /\ IsSome(env.STORMCLOUD_WORKING_DIR)) =>
        cwd = Unwrap(env.STORMCLOUD_WORKING_DIR)

(***************************************************************************)
(* C14: as every external command ends, every run ends, and it ends once:  *)
(* with exit code 0 iff the configuration resolved, the change of          *)
(* directory (if any) succeeded and every command that ran succeeded;      *)
(* otherwise with a non-zero exit code and an error, the failed command    *)
(* (if any) being the last one.  An ended run takes no further step.       *)
(***************************************************************************)
Terminated == pc = "exit"

EverythingSucceeded ==
    /\ Parsed /\ IsSome(build_type) /\ IsSome(ip)
    /\ IsSome(Flags.working_dir) => cwd = Unwrap(Flags.working_dir)
    /\ \A i \in Positions : Succeeded(i)

C14_TerminalState ==
    IF Terminated
    THEN /\ exit_code \in {Some(0), Some(1), Some(2)}
         /\ exit_code = Some(0) <=> EverythingSucceeded
         /\ exit_code = Some(0) <=> err = None
         /\ \A i \in Positions : ~Succeeded(i) => i = Len(log)
    ELSE exit_code = None /\ err = None

C14_Terminates ==
    /\ <>Terminated
    /\ []C14_TerminalState
    /\ [][~Terminated]_vars

C14_Witness == Terminated /\ exit_code = Some(0) /\ Len(log) >= 4 /\ ~Flags.no_start

C14_WitnessAborted ==
    Terminated /\ exit_code = Some(1) /\ Len(log) >= 2 /\ ~Succeeded(Len(log))

(***************************************************************************)
(* C15: every upload command has as source the local path of its artifact  *)
(* for the run's variant, target-deploy/<lowercased variant>/<binary>, and *)
(* as destination root@<host>:<remote path>, the remote path being fixed   *)
(* per artifact and the same for both variants.                            *)
(***************************************************************************)
RemotePath(a) ==
    CASE a = "daemon" -> "/a/stormcloud/bin/release/stormcloud_daemon"
      [] a = "runner" ->
           "/a/stormcloud/stormlets/release/deployed/stormlet_javascript@0.0.0/stormrunner_javascript.0.0.0"
      [] a = "cloudbuster" -> "/a/stormcloud/bin/cloudbuster"

\* The remote path of the daemon and of the runner, had it followed the variant.
RemotePathOfVariant(a, b) ==
    CASE a = "daemon" -> "/a/stormcloud/bin/" \o VariantWord(b) \o "/stormcloud_daemon"
      [] a = "runner" ->
           "/a/stormcloud/stormlets/" \o VariantWord(b)
              \o "/deployed/stormlet_javascript@0.0.0/stormrunner_javascript.0.0.0"
      [] a = "cloudbuster" -> "/a/stormcloud/bin/cloudbuster"

UploadOfArtifact(i) ==
    CHOOSE a \in Artifacts :
        /\ log[i].fn = "upload_" \o a
        /\ a \in Selection

C15_UploadCommand ==
    \A i \in Positions :
        IsUpload(log[i].command) =>
            LET c == log[i].command
                a == UploadOfArtifact(i)
            IN  /\ \E x \in Selection : log[i].fn = "upload_" \o x
                /\ c.args = <<"--human-readable", "--compress", "--progress", "--verbose",
                              ArtifactPath(a, Unwrap(build_type)),
                              "root@" \o HostWord(Unwrap(ip)) \o ":" \o RemotePath(a)>>
                /\ c.current_dir = None

C15_Witness ==
    /\ build_type = Some("Debug")
    /\ ip = Some(<<10, 0, 0, 6>>)
    /\ \E i \in Positions :
          /\ log[i].fn = "upload_runner"
          /\ log[i].command.args[5] = "target-deploy/debug/stormrunner_javascript"
          /\ log[i].command.args[6] =
                "root@10.0.0.6:/a/stormcloud/stormlets/release/deployed/stormlet_javascript@0.0.0/stormrunner_javascript.0.0.0"

\* C15 as stated: the remote path follows the variant as the local path does.
C15_RemotePathPerVariant ==
    \A i \in Positions :
        IsUpload(log[i].command) =>
            log[i].command.args[6] =
                "root@" \o HostWord(Unwrap(ip)) \o ":"
                   \o RemotePathOfVariant(UploadOfArtifact(i), Unwrap(build_type))

(***************************************************************************)
(* C16: build, strip and upload are three batches over the selected        *)
(* artifacts: a strip command runs only after every selected artifact has  *)
(* been built successfully, an upload only after every selected artifact   *)
(* has been built and (unless --no-strip) stripped successfully; so after  *)
(* a failed strip no artifact is uploaded.                                 *)
(***************************************************************************)
C16_BatchedPhases ==
    \A j \in Positions :
        /\ IsStrip(log[j].command) =>
              /\ ~Flags.no_strip
              /\ \A a \in Selection : BuiltBefore(a, j)
              /\ \A i \in Positions : IsBuild(log[i].command) => i < j
        /\ IsUpload(log[j].command) =>
              /\ \A a \in Selection : BuiltBefore(a, j)
              /\ ~Flags.no_strip => \A a \in Selection : StrippedBefore(a, j)
              /\ \A i \in Positions : (IsBuild(log[i].command) \/ IsStrip(log[i].command)) =>
                    i < j /\ Succeeded(i)

C16_Witness ==
    /\ Terminated /\ Parsed /\ Len(log) >= 1
    /\ ~Flags.only_daemon /\ ~Flags.only_runner /\ ~Flags.no_strip
    /\ IsRemoveDebuginfoOf(log[Len(log)].command, "runner")
    /\ ~Succeeded(Len(log))
    /\ StrippedBefore("daemon", Len(log))
    /\ \A i \in Positions : ~IsUpload(log[i].command)

(***************************************************************************)
(* C17: stripping an artifact is two commands on                           *)
(* target-deploy/<lowercased variant>/<binary>: first the copy of the      *)
(* debug symbols into <binary>.debug next to it, then, only if the first   *)
(* succeeded, the strip of the binary with a debug link to that file, run  *)
(* in the directory of the binary; the path stripped is the source of the  *)
(* later upload.                                                           *)
(***************************************************************************)
CopyCommandOf(a, b) ==
    Cmd("objcopy", <<"--only-keep-debug", ArtifactPath(a, b), ArtifactPath(a, b) \o ".debug">>)

RemoveCommandOf(a, b) ==
    CmdIn("objcopy",
          <<"--strip-debug", "--strip-unneeded", "--remove-section", ".gnu_debuglink",
            "--add-gnu-debuglink", ArtifactFile(a) \o ".debug", ArtifactFile(a)>>,
          "target-deploy/" \o VariantWord(b))

C17_StripTwoCommands ==
    \A j \in Positions :
        /\ IsCopyDebuginfo(log[j].command) =>
              /\ \E a \in Selection : log[j].command = CopyCommandOf(a, Unwrap(build_type))
              /\ IF Succeeded(j)
                 THEN j < Len(log) /\ IsRemoveDebuginfo(log[j + 1].command)
                 ELSE j = Len(log)
        /\ IsRemoveDebuginfo(log[j].command) =>
              /\ j > 1
              /\ Succeeded(j - 1)
              /\ \E a \in Selection :
                    /\ log[j - 1].command = CopyCommandOf(a, Unwrap(build_type))
                    /\ log[j].command = RemoveCommandOf(a, Unwrap(build_type))
        /\ IsUpload(log[j].command) /\ ~Flags.no_strip =>
              \E i \in 1..(j - 1) :
                  /\ IsCopyDebuginfo(log[i].command)
                  /\ log[i].command.args[2] = log[j].command.args[5]

C17_Witness ==
    /\ Completed /\ build_type = Some("Debug")
    /\ \E i, j \in Positions :
          /\ i + 1 < j
          /\ log[i].command = CopyCommandOf("cloudbuster", "Debug")
          /\ log[i + 1].command = RemoveCommandOf("cloudbuster", "Debug")
          /\ IsUploadOf(log[j].command, "cloudbuster")

C17_WitnessFirstFailed ==
    /\ Terminated /\ Len(log) >= 1
    /\ IsCopyDebuginfo(log[Len(log)].command) /\ ~Succeeded(Len(log))

(***************************************************************************)
(* C18: without the flag, an environment variable that does not parse      *)
(* (STORMCLOUD_BUILD_TYPE other than exactly debug or release, GHOST_IP    *)
(* that is no IPv4 address) counts as absent: resolution of that setting   *)
(* fails with the very error of the unset variable, and no default value   *)
(* is taken.                                                               *)
(***************************************************************************)
BuildTypeUnparsable ==
    /\ argv.build_type = None
    /\ IsSome(env.STORMCLOUD_BUILD_TYPE)
    /\ Unwrap(env.STORMCLOUD_BUILD_TYPE) \notin {"debug", "release"}

IpUnparsable ==
    /\ argv.ip = None
    /\ IsSome(env.GHOST_IP)
    /\ Unwrap(env.GHOST_IP) \notin {"10.0.0.5", "10.0.0.6", "10.0.0.7", "10.0.0.8"}

C18_UnparsableIsAbsent ==
    /\ (BuildTypeResolutionOver /\ BuildTypeUnparsable) =>
          /\ FailedInConfiguration /\ build_type = None /\ ip = None
          /\ err = Some(<<"STORMCLOUD_BUILD_TYPE", "env", "var", "must", "be", "defined", "or",
                          "--build-type", "must", "be", "supplied">>)
    /\ (IpResolutionOver /\ IpUnparsable) =>
          /\ FailedInConfiguration /\ ip = None
          /\ err = Some(<<"GHOST_IP", "env", "var", "must", "be", "defined", "or",
                          "--ip", "must", "be", "supplied">>)

C18_Witness ==
    /\ BuildTypeResolutionOver /\ BuildTypeUnparsable
    /\ env.STORMCLOUD_BUILD_TYPE = Some("Release")
    /\ pc = "exit" /\ exit_code = Some(1)

C18_WitnessIp ==
    /\ IpResolutionOver /\ IpUnparsable
    /\ env.GHOST_IP = Some("ghost")
    /\ pc = "exit" /\ exit_code = Some(1)

(***************************************************************************)
(* C19: the configuration is resolved, build variant first and host next,  *)
(* before any side effect: while either is unresolved, and so in every run *)
(* whose resolution failed, the current directory is the initial one and   *)
(* no command has been executed, whatever the flags.                       *)
(***************************************************************************)
C19_ResolveBeforeEffects ==
    /\ (build_type = None \/ ip = None) => cwd = "/home/operator" /\ log = <<>>
    /\ IsSome(ip) => IsSome(build_type)
    /\ (Terminated /\ Parsed /\ (build_type = None \/ ip = None)) =>
          exit_code = Some(1) /\ (NamesBuildTypeSetting \/ NamesIpSetting)

C19_Witness ==
    /\ Terminated /\ Parsed
    /\ IsSome(build_type) /\ ip = None
    /\ IsSome(Flags.working_dir) /\ ~Flags.no_stop /\ ~Flags.no_start
    /\ cwd = "/home/operator" /\ log = <<>>

(***************************************************************************)
(* C20: a run that completes without failure has built and uploaded the    *)
(* daemon or the runner: no accepted command line deploys nothing, or      *)
(* cloudbuster alone.                                                      *)
(***************************************************************************)
Core == {"daemon", "runner"}

C20_DeploysDaemonOrRunner ==
    Completed =>
        /\ \E a \in Core :
              /\ \E i \in Positions : IsBuildOf(log[i].command, a) /\ Succeeded(i)
              /\ \E i \in Positions : IsUploadOf(log[i].command, a) /\ Succeeded(i)
        /\ Built \cap Core # {}
        /\ Uploaded \cap Core # {}
        /\ Built \cap Core = Uploaded \cap Core

C20_Witness ==
    /\ Completed
    /\ Flags.only_runner /\ Flags.with_cloudbuster
    /\ Built = {"runner", "cloudbuster"}
    /\ Uploaded = {"runner", "cloudbuster"}

====
